---- MODULE Spec2Model ----
(***************************************************************************)
(* The message ingestion pipeline of websocket-app (src/main.go): one      *)
(* websocketHandler goroutine per connection, the shared "sequences"       *)
(* counter document and the shared "messages" collection.                  *)
(*                                                                         *)
(* A handler is cut into steps at its blocking calls: the handshake        *)
(* (validateJWTToken + Upgrade), conn.ReadMessage with the local work that *)
(* follows it (json.Unmarshal, the SenderID stamp, InsertMessage's         *)
(* validation), seqColl.FindOneAndUpdate with the type switch and the      *)
(* id/timestamp stamp, collection.InsertOne, and conn.WriteMessage.  The   *)
(* store executes each FindOneAndUpdate and InsertOne atomically.          *)
(***************************************************************************)
EXTENDS Integers, Sequences, FiniteSets, TLC

\* ---------------------------------------------------------------- bounds
NumConns == 2            \* connections that may be opened
MaxMessages == 2         \* payloads read in total, over all connections

Conns == 1..NumConns

\* ---------------------------------------------------------------- tokens
\* The key validateJWTToken verifies with (the base64 literal of line 229)
\* and the key init() loads from JWT_SECRET_KEY (lines 27-31).
decodedKey == "2Pmtk92MEFb4Mi1ppbEwTRIutN89xTG4GB6S/blXZVA="
jwtSecretKey == "JWT_SECRET_KEY"
\* A key the server does not hold.
ForeignKey == "foreign"

\* A token string: empty, or a JWT signed with some key, carrying the "id"
\* claim and possibly an expiry in the past.
Jwt(key, id, expired) ==
    [form |-> "jwt", key |-> key, id |-> id, expired |-> expired]
EmptyToken == [form |-> "empty", key |-> "", id |-> 0, expired |-> FALSE]

Tokens ==
    { EmptyToken,
      Jwt(decodedKey, 42, FALSE), Jwt(decodedKey, 0, FALSE),
      Jwt(decodedKey, 42, TRUE), Jwt(jwtSecretKey, 42, FALSE),
      Jwt(ForeignKey, 42, FALSE) }

NoClaims == [ID |-> 0]

ValidateJWTToken_noExpiry(t) ==
    IF t.form = "jwt" /\ t.key = decodedKey
    THEN [err |-> FALSE, claims |-> [ID |-> t.id]]
    ELSE [err |-> TRUE, claims |-> NoClaims]

\* validateJWTToken: jwt.ParseWithClaims with the key function returning
\* decodedKey; a parse, signature or expiry failure is an error.
ValidateJWTToken(t) ==
    IF t.form = "jwt" /\ t.key = decodedKey /\ ~t.expired
    THEN [err |-> FALSE, claims |-> [ID |-> t.id]]
    ELSE [err |-> TRUE, claims |-> NoClaims]

\* ---------------------------------------------------------------- payloads
\* The bytes of one inbound frame.  wf: the bytes are JSON that decodes into
\* Message.  A key the frame does not carry reads as the zero value.
Payload(id, s, r, c, ts) ==
    [wf |-> TRUE, id |-> id, senderId |-> s, recipientId |-> r,
     content |-> c, timestamp |-> ts]
Malformed ==
    [wf |-> FALSE, id |-> 0, senderId |-> 0, recipientId |-> 0,
     content |-> "", timestamp |-> 0]

Payloads ==
    { Malformed,
      Payload(0, 0, 7, "hi", 0),       \* {"content":"hi","recipientId":7}
      Payload(0, 0, 7, "", 0),         \* {"content":"","recipientId":7}
      Payload(0, 0, 0, "hi", 0),       \* {"content":"hi"}
      Payload(1, 43, 8, "yo", 9) }     \* id, senderId and timestamp supplied

ZeroMessage ==
    [ID |-> 0, SenderID |-> 0, RecipientID |-> 0, Content |-> "",
     Timestamp |-> 0]

\* json.Unmarshal(messageData, &message): Message has no json tags, so the
\* keys id, senderId, recipientId, content, timestamp match its fields.
Unmarshal(data) ==
    IF data.wf
    THEN [err |-> FALSE,
          msg |-> [ID |-> data.id, SenderID |-> data.senderId,
                   RecipientID |-> data.recipientId, Content |-> data.content,
                   Timestamp |-> data.timestamp]]
    ELSE [err |-> TRUE, msg |-> ZeroMessage]

StampSender_keep(msg, cl) == msg

\* message.SenderID = claims.ID
StampSender(msg, cl) == [msg EXCEPT !.SenderID = cl.ID]

ValidateMessage_noContent(msg) ==
    ~(msg.SenderID = 0 \/ msg.RecipientID = 0)

ValidateMessage_noRecipient(msg) ==
    ~(msg.SenderID = 0 \/ msg.Content = "")

\* The guard at the head of InsertMessage (TRUE: the message passes).
ValidateMessage(msg) ==
    ~(msg.SenderID = 0 \/ msg.RecipientID = 0 \/ msg.Content = "")

StampSequence_keep(msg, seq, now) == [msg EXCEPT !.Timestamp = now]

StampSequence_keepTimestamp(msg, seq, now) == [msg EXCEPT !.ID = seq]

\* message.ID = seq; message.Timestamp = time.Now().Unix()
StampSequence(msg, seq, now) == [msg EXCEPT !.ID = seq, !.Timestamp = now]

\* The values time.Now().Unix() may return.
ClockValues == {100}

\* ---------------------------------------------------------------- counter
\* The document {_id: "message_sequence", sequence: <number>} of the
\* sequences collection.  The stored number is num + half/2; half is 1 only
\* for a double.  kind is the BSON type of the field.
SeqDoc(kind, num, half) ==
    [present |-> TRUE, kind |-> kind, num |-> num, half |-> half]
AbsentDoc == [present |-> FALSE, kind |-> "none", num |-> 0, half |-> 0]

\* What the deployment may have seeded before the server starts.
InitSeqDocs ==
    { AbsentDoc, SeqDoc("int32", 0, 0), SeqDoc("double", 1, 1),
      SeqDoc("decimal128", 0, 0) }

IncSequence_set(doc) == [doc EXCEPT !.num = 1]

IncSequence_dec(doc) == [doc EXCEPT !.num = @ - 1]

\* The update {$inc: {sequence: 1}}.
IncSequence(doc) == [doc EXCEPT !.num = @ + 1]

\* The type switch of getNextSequence: int32, int64 and float64 are
\* recognised, anything else is an error.
RecognisedKind(kind) == kind \in {"int32", "int64", "double"}

SequenceValue_before(doc) ==
    IF doc.kind = "double" THEN (2 * (doc.num - 1) + doc.half) \div 2
    ELSE doc.num - 1

\* int64(v) of the switch: the identity on the integer kinds, truncation
\* on a float64 (the stored numbers here are not negative).
SequenceValue(doc) ==
    IF doc.kind = "double" THEN (2 * doc.num + doc.half) \div 2 ELSE doc.num

\* ---------------------------------------------------------------- state
VARIABLES
    pc,           \* where each handler is
    http,         \* the outcome of each connection's HTTP request
    tokenStr,     \* the token each request carried
    claims,       \* the claims validateJWTToken returned
    messageData,  \* the frame of the running cycle
    message,      \* the Message of the running cycle
    received,     \* the frames ReadMessage returned, per connection
    echoed,       \* the frames WriteMessage sent, per connection
    lastErr,      \* the error that ended each handler
    seqDoc,       \* the counter document
    seqDoc0,      \* the counter document when the server started
    applied,      \* the $inc updates the store has applied
    messages,     \* the messages collection
    allocLog,     \* the values getNextSequence returned without error
    persistLog,   \* the inserts the store applied, and for which cycle
    storeResponds \* the store answers the calls made to it

vars ==
    << pc, http, tokenStr, claims, messageData, message, received, echoed,
       lastErr, seqDoc, seqDoc0, applied, messages, allocLog, persistLog,
       storeResponds >>

RECURSIVE SumLen(_, _)
SumLen(f, S) ==
    IF S = {} THEN 0
    ELSE LET c == CHOOSE x \in S : TRUE
         IN Len(f[c]) + SumLen(f, S \ {c})

TotalReceived == SumLen(received, Conns)

Init ==
    /\ pc = [c \in Conns |-> "connecting"]
    /\ http = [c \in Conns |-> "none"]
    /\ tokenStr = [c \in Conns |-> EmptyToken]
    /\ claims = [c \in Conns |-> NoClaims]
    /\ messageData = [c \in Conns |-> Malformed]
    /\ message = [c \in Conns |-> ZeroMessage]
    /\ received = [c \in Conns |-> << >>]
    /\ echoed = [c \in Conns |-> << >>]
    /\ lastErr = [c \in Conns |-> "none"]
    /\ seqDoc \in InitSeqDocs
    /\ seqDoc0 = seqDoc
    /\ applied = 0
    /\ messages = {}
    /\ allocLog = {}
    /\ persistLog = {}
    /\ storeResponds = TRUE

Break_continue(c) == [pc EXCEPT ![c] = "receiving"]

Break_all(c) == [b \in Conns |-> "closed"]

\* `break` out of the loop, and the deferred conn.Close().
Break(c) == [pc EXCEPT ![c] = "closed"]

\* The loop of c ends with error err.
Fail(c, err) ==
    /\ pc' = Break(c)
    /\ lastErr' = [lastErr EXCEPT ![c] = err]

SequenceError_ignored(c, err) ==
    /\ pc' = [pc EXCEPT ![c] = "insert"]
    /\ lastErr' = [lastErr EXCEPT ![c] = err]

\* getNextSequence returned err: InsertMessage returns it before the
\* InsertOne call, and the loop breaks.
SequenceError(c, err) == Fail(c, err)

\* `return` before the loop is entered: the request of c ends with err.
Return(c, err) ==
    /\ pc' = [pc EXCEPT ![c] = "closed"]
    /\ lastErr' = [lastErr EXCEPT ![c] = err]

\* ---------------------------------------------------------------- handshake
\* Connections are numbered in the order their requests arrive.
Arrives(c) ==
    /\ pc[c] = "connecting"
    /\ http[c] = "none"
    /\ IF c = 1 THEN TRUE ELSE http[c - 1] # "none"

\* validateJWTToken fails: 401, no upgrade.
Unauthorized(c, t) ==
    /\ Arrives(c)
    /\ ValidateJWTToken(t).err
    /\ tokenStr' = [tokenStr EXCEPT ![c] = t]
    /\ http' = [http EXCEPT ![c] = "unauthorized"]
    /\ Return(c, "unauthorized")
    /\ UNCHANGED << claims, messageData, message, received, echoed, seqDoc,
                    seqDoc0, applied, messages, allocLog, persistLog,
                    storeResponds >>

\* validateJWTToken succeeds and upgrader.Upgrade succeeds.
Upgrade(c, t) ==
    /\ Arrives(c)
    /\ ~ValidateJWTToken(t).err
    /\ tokenStr' = [tokenStr EXCEPT ![c] = t]
    /\ claims' = [claims EXCEPT ![c] = ValidateJWTToken(t).claims]
    /\ http' = [http EXCEPT ![c] = "upgraded"]
    /\ pc' = [pc EXCEPT ![c] = "receiving"]
    /\ UNCHANGED << messageData, message, received, echoed, lastErr, seqDoc,
                    seqDoc0, applied, messages, allocLog, persistLog,
                    storeResponds >>

\* validateJWTToken succeeds and upgrader.Upgrade fails.
UpgradeError(c, t) ==
    /\ Arrives(c)
    /\ ~ValidateJWTToken(t).err
    /\ tokenStr' = [tokenStr EXCEPT ![c] = t]
    /\ claims' = [claims EXCEPT ![c] = ValidateJWTToken(t).claims]
    /\ http' = [http EXCEPT ![c] = "upgradeError"]
    /\ Return(c, "upgrade")
    /\ UNCHANGED << messageData, message, received, echoed, seqDoc, seqDoc0,
                    applied, messages, allocLog, persistLog,
                    storeResponds >>

\* ---------------------------------------------------------------- the loop
\* conn.ReadMessage returns an error (the client went away).
ReadError(c) ==
    /\ pc[c] = "receiving"
    /\ Fail(c, "read")
    /\ UNCHANGED << http, tokenStr, claims, messageData, message, received,
                    echoed, seqDoc, seqDoc0, applied, messages, allocLog,
                    persistLog,
                    storeResponds >>

\* A frame is read and json.Unmarshal fails.
ReadMessageParseError(c, data) ==
    /\ pc[c] = "receiving"
    /\ TotalReceived < MaxMessages
    /\ Unmarshal(data).err
    /\ received' = [received EXCEPT ![c] = Append(@, data)]
    /\ messageData' = [messageData EXCEPT ![c] = data]
    /\ message' = [message EXCEPT ![c] = Unmarshal(data).msg]
    /\ Fail(c, "parse")
    /\ UNCHANGED << http, tokenStr, claims, echoed, seqDoc, seqDoc0, applied,
                    messages, allocLog, persistLog,
                    storeResponds >>

\* A frame is read and parsed, SenderID is stamped, and InsertMessage
\* returns its validation error.
ReadMessageInvalid(c, data) ==
    /\ pc[c] = "receiving"
    /\ TotalReceived < MaxMessages
    /\ ~Unmarshal(data).err
    /\ LET m == StampSender(Unmarshal(data).msg, claims[c])
       IN /\ ~ValidateMessage(m)
          /\ message' = [message EXCEPT ![c] = m]
    /\ received' = [received EXCEPT ![c] = Append(@, data)]
    /\ messageData' = [messageData EXCEPT ![c] = data]
    /\ Fail(c, "validation")
    /\ UNCHANGED << http, tokenStr, claims, echoed, seqDoc, seqDoc0, applied,
                    messages, allocLog, persistLog,
                    storeResponds >>

\* A frame is read and parsed, SenderID is stamped, and InsertMessage
\* passes its validation: it goes on to getNextSequence.
ReadMessageValid(c, data) ==
    /\ pc[c] = "receiving"
    /\ TotalReceived < MaxMessages
    /\ ~Unmarshal(data).err
    /\ LET m == StampSender(Unmarshal(data).msg, claims[c])
       IN /\ ValidateMessage(m)
          /\ message' = [message EXCEPT ![c] = m]
    /\ received' = [received EXCEPT ![c] = Append(@, data)]
    /\ messageData' = [messageData EXCEPT ![c] = data]
    /\ pc' = [pc EXCEPT ![c] = "sequence"]
    /\ UNCHANGED << http, tokenStr, claims, echoed, lastErr, seqDoc, seqDoc0,
                    applied, messages, allocLog, persistLog,
                    storeResponds >>

\* ---------------------------------------------------------------- sequence
\* FindOneAndUpdate finds no document (no upsert is asked for): the call
\* returns mongo.ErrNoDocuments.
GetNextSequenceNoDocument(c) ==
    /\ pc[c] = "sequence"
    /\ storeResponds
    /\ ~seqDoc.present
    /\ SequenceError(c, "sequence-nodoc")
    /\ UNCHANGED << http, tokenStr, claims, messageData, message, received,
                    echoed, seqDoc, seqDoc0, applied, messages, allocLog,
                    persistLog,
                    storeResponds >>

\* FindOneAndUpdate returns a driver or network error; the server may or
\* may not have applied the update before the reply was lost.
GetNextSequenceStoreError(c) ==
    /\ pc[c] = "sequence"
    /\ \E done \in BOOLEAN :
          /\ done => seqDoc.present
          /\ seqDoc' = IF done THEN IncSequence(seqDoc) ELSE seqDoc
          /\ applied' = IF done THEN applied + 1 ELSE applied
    /\ SequenceError(c, "sequence-store")
    /\ UNCHANGED << http, tokenStr, claims, messageData, message, received,
                    echoed, seqDoc0, messages, allocLog, persistLog,
                    storeResponds >>

\* FindOneAndUpdate increments the document and returns it, and the
\* sequence field has a type the switch does not recognise.
GetNextSequenceBadType(c) ==
    /\ pc[c] = "sequence"
    /\ storeResponds
    /\ seqDoc.present
    /\ ~RecognisedKind(seqDoc.kind)
    /\ seqDoc' = IncSequence(seqDoc)
    /\ applied' = applied + 1
    /\ SequenceError(c, "sequence-type")
    /\ UNCHANGED << http, tokenStr, claims, messageData, message, received,
                    echoed, seqDoc0, messages, allocLog, persistLog,
                    storeResponds >>

\* FindOneAndUpdate increments the document and returns it; the value is
\* converted to int64 and InsertMessage stamps the id and the timestamp.
GetNextSequence(c) ==
    /\ pc[c] = "sequence"
    /\ storeResponds
    /\ seqDoc.present
    /\ RecognisedKind(seqDoc.kind)
    /\ seqDoc' = IncSequence(seqDoc)
    /\ applied' = applied + 1
    /\ \E now \in ClockValues :
          message' = [message EXCEPT
                        ![c] = StampSequence(@, SequenceValue(seqDoc'), now)]
    /\ allocLog' = allocLog \cup
          {[conn |-> c, n |-> Len(received[c]), val |-> SequenceValue(seqDoc')]}
    /\ pc' = [pc EXCEPT ![c] = "insert"]
    /\ UNCHANGED << http, tokenStr, claims, messageData, received, echoed,
                    lastErr, seqDoc0, messages, persistLog,
                    storeResponds >>

\* ---------------------------------------------------------------- insert
Persisted(c, acked) ==
    [conn |-> c, n |-> Len(received[c]), payload |-> messageData[c],
     msg |-> message[c], acked |-> acked]

\* collection.InsertOne stores the message (the collection is keyed by
\* _id: a second document with the same _id is a duplicate key error).
InsertOne(c) ==
    /\ pc[c] = "insert"
    /\ storeResponds
    /\ IF \E m \in messages : m.ID = message[c].ID
       THEN /\ Fail(c, "insert")
            /\ UNCHANGED << messages, persistLog >>
       ELSE /\ messages' = messages \cup {message[c]}
            /\ persistLog' = persistLog \cup {Persisted(c, TRUE)}
            /\ pc' = [pc EXCEPT ![c] = "echo"]
            /\ UNCHANGED lastErr
    /\ UNCHANGED << http, tokenStr, claims, messageData, message, received,
                    echoed, seqDoc, seqDoc0, applied, allocLog,
                    storeResponds >>

\* collection.InsertOne returns an error (the 5 s timeout, the network);
\* the server may or may not have stored the document.
InsertOneError(c) ==
    /\ pc[c] = "insert"
    /\ \E done \in BOOLEAN :
          /\ done => ~(\E m \in messages : m.ID = message[c].ID)
          /\ messages' = IF done THEN messages \cup {message[c]} ELSE messages
          /\ persistLog' = IF done THEN persistLog \cup {Persisted(c, FALSE)}
                           ELSE persistLog
    /\ Fail(c, "insert")
    /\ UNCHANGED << http, tokenStr, claims, messageData, message, received,
                    echoed, seqDoc, seqDoc0, applied, allocLog,
                    storeResponds >>

\* ---------------------------------------------------------------- echo
EchoPayload_enriched(data, msg) ==
    [data EXCEPT !.id = msg.ID, !.senderId = msg.SenderID,
                 !.timestamp = msg.Timestamp]

\* The bytes conn.WriteMessage is given: messageData, as received.
EchoPayload(data, msg) == data

WriteMessage(c) ==
    /\ pc[c] = "echo"
    /\ echoed' = [echoed EXCEPT
                    ![c] = Append(@, EchoPayload(messageData[c], message[c]))]
    /\ pc' = [pc EXCEPT ![c] = "receiving"]
    /\ UNCHANGED << http, tokenStr, claims, messageData, message, received,
                    lastErr, seqDoc, seqDoc0, applied, messages, allocLog,
                    persistLog,
                    storeResponds >>

\* conn.WriteMessage returns an error.
WriteError(c) ==
    /\ pc[c] = "echo"
    /\ Fail(c, "write")
    /\ UNCHANGED << http, tokenStr, claims, messageData, message, received,
                    echoed, seqDoc, seqDoc0, applied, messages, allocLog,
                    persistLog,
                    storeResponds >>

\* ---------------------------------------------------------------- store
\* The store stops answering (a partition, a stalled server): the calls in
\* flight get no reply.
StoreStalls ==
    /\ storeResponds
    /\ storeResponds' = FALSE
    /\ UNCHANGED << pc, http, tokenStr, claims, messageData, message,
                    received, echoed, lastErr, seqDoc, seqDoc0, applied,
                    messages, allocLog, persistLog >>

\* The store answers again.
StoreRecovers ==
    /\ ~storeResponds
    /\ storeResponds' = TRUE
    /\ UNCHANGED << pc, http, tokenStr, claims, messageData, message,
                    received, echoed, lastErr, seqDoc, seqDoc0, applied,
                    messages, allocLog, persistLog >>

\* ---------------------------------------------------------------- system
Next ==
    \/ \E c \in Conns, t \in Tokens : Unauthorized(c, t)
    \/ \E c \in Conns, t \in Tokens : Upgrade(c, t)
    \/ \E c \in Conns, t \in Tokens : UpgradeError(c, t)
    \/ \E c \in Conns : ReadError(c)
    \/ \E c \in Conns, data \in Payloads : ReadMessageParseError(c, data)
    \/ \E c \in Conns, data \in Payloads : ReadMessageInvalid(c, data)
    \/ \E c \in Conns, data \in Payloads : ReadMessageValid(c, data)
    \/ \E c \in Conns : GetNextSequenceNoDocument(c)
    \/ \E c \in Conns : GetNextSequenceStoreError(c)
    \/ \E c \in Conns : GetNextSequenceBadType(c)
    \/ \E c \in Conns : GetNextSequence(c)
    \/ \E c \in Conns : InsertOne(c)
    \/ \E c \in Conns : InsertOneError(c)
    \/ \E c \in Conns : WriteMessage(c)
    \/ \E c \in Conns : WriteError(c)
    \/ StoreStalls
    \/ StoreRecovers

Spec == Init /\ [][Next]_vars

\* The deadline of context.WithTimeout(context.Background(), 5*time.Second)
\* ends an InsertOne call the store does not answer.
InsertOneTimeout(c) == ~storeResponds /\ InsertOneError(c)

\* The runtime fires the deadline of every pending InsertOne.  No other
\* step is promised: clients need not send, the store need not answer, and
\* getNextSequence passes context.TODO(), which has no deadline.
LiveSpec == Spec /\ \A c \in Conns : WF_vars(InsertOneTimeout(c))

\* ---------------------------------------------------------------- variant
\* The second program of the repository (src/unnamed/part_000): the same
\* handler loop with no token check, no validation and no sequence, whose
\* InsertMessage stores a fixed document in place of its argument.

\* json.Unmarshal into the variant's Message, whose ID is an ObjectID: a
\* numeric id in the payload does not decode.
VariantUnmarshal(data) ==
    IF data.wf /\ data.id = 0
    THEN [err |-> FALSE,
          msg |-> [ID |-> 0, SenderID |-> data.senderId,
                   RecipientID |-> data.recipientId, Content |-> data.content,
                   Timestamp |-> data.timestamp]]
    ELSE [err |-> TRUE, msg |-> ZeroMessage]

\* The _id the driver generates for a document that carries none: a fresh
\* ObjectID, written here as a negative number no sequence value equals.
NewObjectID(stored) == 0 - (Cardinality(stored) + 1)

\* hardcodedMessage, with the generated _id.
HardcodedMessage(stored, now) ==
    [ID |-> NewObjectID(stored), SenderID |-> 1, RecipientID |-> 2,
     Content |-> "Hello there!", Timestamp |-> now]

VariantPersisted(c, rec, acked) ==
    [conn |-> c, n |-> Len(received[c]), payload |-> messageData[c],
     msg |-> rec, acked |-> acked]

\* upgrader.Upgrade succeeds; the request carries no token.
VariantUpgrade(c) ==
    /\ Arrives(c)
    /\ http' = [http EXCEPT ![c] = "upgraded"]
    /\ pc' = [pc EXCEPT ![c] = "receiving"]
    /\ UNCHANGED << tokenStr, claims, messageData, message, received, echoed,
                    lastErr, seqDoc, seqDoc0, applied, messages, allocLog,
                    persistLog, storeResponds >>

\* upgrader.Upgrade fails.
VariantUpgradeError(c) ==
    /\ Arrives(c)
    /\ http' = [http EXCEPT ![c] = "upgradeError"]
    /\ Return(c, "upgrade")
    /\ UNCHANGED << tokenStr, claims, messageData, message, received, echoed,
                    seqDoc, seqDoc0, applied, messages, allocLog, persistLog,
                    storeResponds >>

\* A frame is read and json.Unmarshal fails.
VariantReadMessageParseError(c, data) ==
    /\ pc[c] = "receiving"
    /\ TotalReceived < MaxMessages
    /\ VariantUnmarshal(data).err
    /\ received' = [received EXCEPT ![c] = Append(@, data)]
    /\ messageData' = [messageData EXCEPT ![c] = data]
    /\ message' = [message EXCEPT ![c] = VariantUnmarshal(data).msg]
    /\ Fail(c, "parse")
    /\ UNCHANGED << http, tokenStr, claims, echoed, seqDoc, seqDoc0, applied,
                    messages, allocLog, persistLog, storeResponds >>

\* A frame is read and parsed and the timestamp is set; InsertMessage is
\* called with the message.
VariantReadMessage(c, data) ==
    /\ pc[c] = "receiving"
    /\ TotalReceived < MaxMessages
    /\ ~VariantUnmarshal(data).err
    /\ received' = [received EXCEPT ![c] = Append(@, data)]
    /\ messageData' = [messageData EXCEPT ![c] = data]
    /\ \E now \in ClockValues :
          message' = [message EXCEPT
                        ![c] = [VariantUnmarshal(data).msg
                                   EXCEPT !.Timestamp = now]]
    /\ pc' = [pc EXCEPT ![c] = "insert"]
    /\ UNCHANGED << http, tokenStr, claims, echoed, lastErr, seqDoc, seqDoc0,
                    applied, messages, allocLog, persistLog, storeResponds >>

\* collection.InsertOne(ctx, hardcodedMessage) succeeds.
VariantInsertOne(c) ==
    /\ pc[c] = "insert"
    /\ storeResponds
    /\ \E now \in ClockValues :
          LET rec == HardcodedMessage(messages, now)
          IN /\ messages' = messages \cup {rec}
             /\ persistLog' = persistLog \cup {VariantPersisted(c, rec, TRUE)}
    /\ pc' = [pc EXCEPT ![c] = "echo"]
    /\ UNCHANGED << http, tokenStr, claims, messageData, message, received,
                    echoed, lastErr, seqDoc, seqDoc0, applied, allocLog,
                    storeResponds >>

\* collection.InsertOne(ctx, hardcodedMessage) returns an error; the server
\* may or may not have stored the document.
VariantInsertOneError(c) ==
    /\ pc[c] = "insert"
    /\ \E done \in BOOLEAN, now \in ClockValues :
          LET rec == HardcodedMessage(messages, now)
          IN /\ messages' = IF done THEN messages \cup {rec} ELSE messages
             /\ persistLog' =
                   IF done
                   THEN persistLog \cup {VariantPersisted(c, rec, FALSE)}
                   ELSE persistLog
    /\ Fail(c, "insert")
    /\ UNCHANGED << http, tokenStr, claims, messageData, message, received,
                    echoed, seqDoc, seqDoc0, applied, allocLog,
                    storeResponds >>

VariantNext ==
    \/ \E c \in Conns : VariantUpgrade(c)
    \/ \E c \in Conns : VariantUpgradeError(c)
    \/ \E c \in Conns : ReadError(c)
    \/ \E c \in Conns, data \in Payloads : VariantReadMessageParseError(c, data)
    \/ \E c \in Conns, data \in Payloads : VariantReadMessage(c, data)
    \/ \E c \in Conns : VariantInsertOne(c)
    \/ \E c \in Conns : VariantInsertOneError(c)
    \/ \E c \in Conns : WriteMessage(c)
    \/ \E c \in Conns : WriteError(c)
    \/ StoreStalls
    \/ StoreRecovers

VariantSpec == Init /\ [][VariantNext]_vars

\* ---------------------------------------------------------------- properties
AllocsOf(c) == {a \in allocLog : a.conn = c}
PersistsOf(c) == {e \in persistLog : e.conn = c}

\* The cycle of c is past the validation of InsertMessage.
InCycle(c) == pc[c] \in {"sequence", "insert", "echo"}

\* C1: no two successful getNextSequence("message_sequence") calls, of any
\* sessions in any interleaving, return the same value.
C1_SequenceValuesDistinct ==
    \A a, b \in allocLog : a.val = b.val => a = b

\* Two sessions hold a freshly allocated value at the same time.
C1_Witness ==
    \E a, b \in allocLog :
        /\ a.conn # b.conn
        /\ pc[a.conn] = "insert" /\ pc[b.conn] = "insert"

\* C2: every persisted message has senderId equal to the id claim of the
\* token its connection was upgraded with, whatever the payload carried.
C2_SenderIsAuthenticatedSubject ==
    /\ messages = {e.msg : e \in persistLog}
    /\ \A e \in persistLog :
          /\ http[e.conn] = "upgraded"
          /\ e.msg.SenderID = tokenStr[e.conn].id

\* A payload naming another user as sender has been persisted.
C2_Witness ==
    \E e \in persistLog :
        e.payload.senderId # 0 /\ e.payload.senderId # tokenStr[e.conn].id

\* A token no key of the server signed, an expired one, or none at all.
InvalidToken(t) ==
    t.form # "jwt" \/ t.expired \/ t.key \notin {decodedKey, jwtSecretKey}

\* C3: a connection whose token is missing or invalid is answered
\* "unauthorized" and closed; it is never upgraded, reads no payload,
\* allocates no sequence value, persists nothing and echoes nothing; and
\* whatever a connection reads or processes, it was upgraded before.
C3_AuthenticationBeforeSession ==
    \A c \in Conns :
        /\ (http[c] # "none" /\ InvalidToken(tokenStr[c])) =>
              /\ http[c] = "unauthorized"
              /\ pc[c] = "closed"
              /\ received[c] = << >> /\ echoed[c] = << >>
              /\ AllocsOf(c) = {} /\ PersistsOf(c) = {}
        /\ (pc[c] \in {"receiving", "sequence", "insert", "echo"}
               \/ received[c] # << >>) => http[c] = "upgraded"

\* An expired token and an unsigned-by-us token were both turned away while
\* another connection was being served.
C3_Witness ==
    \E c, d \in Conns :
        /\ http[c] = "unauthorized" /\ InvalidToken(tokenStr[c])
        /\ tokenStr[c].form = "jwt"
        /\ http[d] = "upgraded" /\ received[d] # << >>

\* C4: every stored message has senderId # 0, recipientId # 0 and
\* content # "", and no cycle gets past InsertMessage's guard otherwise.
C4_StoredMessagesValid ==
    /\ \A m \in messages :
          m.SenderID # 0 /\ m.RecipientID # 0 /\ m.Content # ""
    /\ \A c \in Conns :
          InCycle(c) =>
              /\ message[c].SenderID # 0
              /\ message[c].RecipientID # 0
              /\ message[c].Content # ""

\* A message is stored and a cycle with an empty content was turned down.
C4_Witness ==
    /\ messages # {}
    /\ \E c \in Conns :
          /\ lastErr[c] = "validation"
          /\ message[c].Content = "" /\ message[c].RecipientID # 0
          /\ message[c].SenderID # 0

\* C5: no two persisted messages carry the same id; no insert is attempted
\* with an id that is already stored or that another cycle holds; an
\* allocated id is only ever stored for the cycle that allocated it; and
\* when no allocation failed after being applied, the allocated values are
\* the consecutive values following the counter's initial value.
C5_IdsNeverReused ==
    /\ \A e, f \in persistLog : e.msg.ID = f.msg.ID => e = f
    /\ \A c \in Conns :
          pc[c] = "insert" =>
              /\ \A m \in messages : m.ID # message[c].ID
              /\ \A d \in Conns \ {c} :
                    pc[d] = "insert" => message[d].ID # message[c].ID
    /\ \A a \in allocLog : \A e \in persistLog :
          e.msg.ID = a.val => (e.conn = a.conn /\ e.n = a.n)
    /\ \A e \in persistLog : \E a \in allocLog :
          a.conn = e.conn /\ a.n = e.n /\ a.val = e.msg.ID
    /\ applied = Cardinality(allocLog) =>
          {a.val : a \in allocLog} =
              {SequenceValue(seqDoc0) + k : k \in 1..applied}

\* An insert failed, its id is in no stored message, and a later id is.
C5_Witness ==
    \E a \in allocLog :
        /\ lastErr[a.conn] = "insert"
        /\ \A m \in messages : m.ID # a.val
        /\ \E m \in messages : m.ID > a.val

\* The errors that end an upgraded session from inside its loop.
LoopErrors ==
    {"read", "parse", "validation", "sequence-nodoc", "sequence-store",
     "sequence-type", "insert", "write"}

\* C6: a failure in the loop body closes the session, and a closed session
\* reads nothing more, allocates nothing, inserts nothing and echoes nothing.
C6_FailureClosesSession ==
    /\ [](\A c \in Conns : lastErr[c] # "none" => pc[c] = "closed")
    /\ [][\A c \in Conns :
            pc[c] = "closed" =>
                /\ pc'[c] = "closed"
                /\ received'[c] = received[c]
                /\ echoed'[c] = echoed[c]
                /\ AllocsOf(c)' = AllocsOf(c)
                /\ PersistsOf(c)' = PersistsOf(c)]_vars

\* Every kind of loop failure has ended some session.
C6_Witness ==
    /\ \E c \in Conns : lastErr[c] \in {"parse", "validation"}
    /\ \E c \in Conns :
          lastErr[c] \in {"read", "write", "insert", "sequence-store"}

\* C7: what a connection is sent is, frame by frame, what it sent itself,
\* each frame at most once and only after the insert of its cycle succeeded;
\* a cycle that fails before the echo writes nothing.
C7_EchoVerbatimAfterInsert ==
    \A c \in Conns :
        /\ Len(echoed[c]) <= Len(received[c])
        /\ \A i \in 1..Len(echoed[c]) :
              /\ echoed[c][i] = received[c][i]
              /\ \E e \in persistLog :
                    e.conn = c /\ e.n = i /\ e.acked /\ e.payload = echoed[c][i]
        /\ (InCycle(c) \/ lastErr[c] \in LoopErrors \ {"read"}) =>
              Len(echoed[c]) = Len(received[c]) - 1

\* A payload carrying its own id, senderId and timestamp has been echoed.
C7_Witness ==
    \E c \in Conns :
        /\ Len(echoed[c]) = 1
        /\ echoed[c][1].senderId = 43
        /\ pc[c] = "receiving"

\* C8: a session goes from open to closed only in a step of its own, by an
\* error of its own; that step changes no other session's position or error.
C8_SessionIsolation ==
    [][\A b \in Conns :
          (pc[b] # "closed" /\ pc'[b] = "closed") =>
              /\ lastErr[b] = "none" /\ lastErr'[b] # "none"
              /\ \A a \in Conns \ {b} :
                    pc'[a] = pc[a] /\ lastErr'[a] = lastErr[a]]_vars

\* One session has ended on a validation, sequence or insert failure and
\* another, its insert done, is about to complete its cycle.
C8_Witness ==
    \E a, b \in Conns :
        /\ a # b
        /\ lastErr[a] \in {"validation", "sequence-store", "insert"}
        /\ pc[b] = "echo"
        /\ ENABLED WriteMessage(b)

\* C9: a getNextSequence call made when the counter document does not
\* exist creates it and returns its first value, never an error.
C9_CounterCreatedOnFirstUse ==
    \A c \in Conns :
        /\ lastErr[c] # "sequence-nodoc"
        /\ (~seqDoc0.present /\ AllocsOf(c) # {}) => seqDoc.present

\* C10 as stated: the stored value is the initial value plus the number of
\* successful allocations.
C10_StoredEqualsSuccessful ==
    seqDoc.num = seqDoc0.num + Cardinality(allocLog)

\* An allocation that ended with an error of its own.
AllocationFailed ==
    \E c \in Conns : lastErr[c] \in {"sequence-store", "sequence-type"}

\* C10 (amended): every successful allocation advances the stored value by
\* exactly one and the value never decreases; the stored value is the
\* initial value plus the number of applied increments, which is at least
\* the number N of successful allocations and is exactly N as long as no
\* getNextSequence call has returned an error.
C10_CounterAdvance ==
    /\ [](/\ seqDoc.num = seqDoc0.num + applied
          /\ applied >= Cardinality(allocLog)
          /\ ~AllocationFailed => applied = Cardinality(allocLog))
    /\ [][/\ seqDoc'.num >= seqDoc.num
          /\ allocLog' # allocLog =>
                /\ seqDoc'.num = seqDoc.num + 1
                /\ Cardinality(allocLog') = Cardinality(allocLog) + 1]_vars

\* Two sessions have each allocated a value and none has failed.
C10_Witness ==
    /\ Cardinality(allocLog) = 2
    /\ ~AllocationFailed
    /\ seqDoc.num = seqDoc0.num + 2

\* The payload the last cycle of c read.
LastReceived(c) == received[c][Len(received[c])]

\* The cycle of c that read its last payload ended at the parse or at the
\* validation.
Rejected(c) == lastErr[c] \in {"parse", "validation"}

\* What the claim lets validation reject: a malformed payload, an empty
\* content, a zero recipientId.
PayloadBad(data) == ~data.wf \/ data.content = "" \/ data.recipientId = 0

\* The last cycle of c got as far as the call of getNextSequence.
ReachedSequence(c) ==
    \/ pc[c] = "sequence"
    \/ lastErr[c] \in {"sequence-nodoc", "sequence-store", "sequence-type"}
    \/ \E a \in allocLog : a.conn = c /\ a.n = Len(received[c])

\* C11 as stated: a payload is rejected exactly when it is malformed, has an
\* empty content or a zero recipientId, for every authenticated identity.
C11_RejectsIffPayloadBad ==
    \A c \in Conns :
        received[c] # << >> => (Rejected(c) <=> PayloadBad(LastReceived(c)))

\* C11 (amended): a payload is rejected exactly when it is malformed, has an
\* empty content or a zero recipientId, or the authenticated subject id is
\* zero; the senderId of the payload plays no part; every payload not
\* rejected goes on to the sequence allocation, and every payload before
\* the last one of a connection was accepted.
C11_RejectsIffPayloadBadOrNoSubject ==
    \A c \in Conns :
        received[c] # << >> =>
            /\ Rejected(c) <=>
                  (PayloadBad(LastReceived(c)) \/ tokenStr[c].id = 0)
            /\ ~Rejected(c) => ReachedSequence(c)
            /\ \A i \in 1..(Len(received[c]) - 1) :
                  ~PayloadBad(received[c][i]) /\ tokenStr[c].id # 0

\* A sound payload was rejected on a connection of subject 0, and a payload
\* naming a foreign sender was accepted on a connection of subject 42.
C11_Witness ==
    \E c, d \in Conns :
        /\ received[c] # << >> /\ ~PayloadBad(LastReceived(c))
        /\ tokenStr[c].id = 0 /\ lastErr[c] = "validation"
        /\ received[d] # << >> /\ LastReceived(d).senderId = 43
        /\ ReachedSequence(d)

\* C12: a token is accepted only if it was signed with the secret loaded at
\* startup from JWT_SECRET_KEY; a token signed with any other key is
\* rejected.
C12_VerifiedWithConfiguredSecret ==
    \A c \in Conns :
        http[c] \in {"upgraded", "upgradeError"} =>
            tokenStr[c].key = jwtSecretKey

\* The errors getNextSequence returns.
SequenceErrors == {"sequence-nodoc", "sequence-store", "sequence-type"}

\* C13: a cycle whose sequence allocation returns an error (store error,
\* no counter document, unrecognised type) ends its session, has no
\* allocated value and no stored message, and the step in which the error
\* is returned leaves the message store as it was.
C13_NoInsertAfterSequenceError ==
    /\ [](\A c \in Conns :
            lastErr[c] \in SequenceErrors =>
                /\ pc[c] = "closed"
                /\ ~\E a \in allocLog : a.conn = c /\ a.n = Len(received[c])
                /\ ~\E e \in persistLog : e.conn = c /\ e.n = Len(received[c]))
    /\ [][\A c \in Conns :
            (lastErr[c] = "none" /\ lastErr'[c] \in SequenceErrors) =>
                (messages' = messages /\ persistLog' = persistLog)]_vars

\* The counter was advanced by calls that returned an error, and nothing
\* is stored.
C13_Witness ==
    /\ \E c \in Conns : lastErr[c] = "sequence-type"
    /\ \E c \in Conns : lastErr[c] = "sequence-store"
    /\ seqDoc.num > seqDoc0.num
    /\ messages = {}

\* C14: a connection's payloads are processed one at a time in the order
\* received: a payload is read only when every earlier one has been echoed,
\* each stored message belongs to the payload at its position, and the ids
\* a session stores increase with the order of its payloads.
C14_InOrderOneAtATime ==
    \A c \in Conns :
        /\ Len(received[c]) - Len(echoed[c]) \in {0, 1}
        /\ pc[c] = "receiving" => Len(echoed[c]) = Len(received[c])
        /\ \A e \in PersistsOf(c) :
              /\ e.n \in 1..Len(received[c])
              /\ e.payload = received[c][e.n]
        /\ \A e, f \in PersistsOf(c) :
              /\ e.n = f.n => e = f
              /\ e.n < f.n => e.msg.ID < f.msg.ID

\* One session has stored the messages of two successive payloads.
C14_Witness ==
    \E c \in Conns : \E e, f \in PersistsOf(c) : e.n = 1 /\ f.n = 2

\* C15: a cycle whose payload is malformed, has an empty content or a zero
\* recipientId allocates no sequence value and stores nothing, and the step
\* that rejects it leaves the counter and the message store as they were.
C15_ValidationHasNoSideEffects ==
    /\ [](/\ \A a \in allocLog : ~PayloadBad(received[a.conn][a.n])
          /\ \A e \in persistLog : ~PayloadBad(e.payload)
          /\ \A c \in Conns :
                Rejected(c) =>
                    /\ ~\E a \in allocLog :
                          a.conn = c /\ a.n = Len(received[c])
                    /\ ~\E e \in persistLog :
                          e.conn = c /\ e.n = Len(received[c]))
    /\ [][\A c \in Conns :
            (lastErr[c] = "none" /\ Rejected(c)') =>
                /\ seqDoc' = seqDoc /\ applied' = applied
                /\ allocLog' = allocLog
                /\ messages' = messages /\ persistLog' = persistLog]_vars

\* A payload with no recipientId was rejected while another session held
\* the only value allocated so far.
C15_Witness ==
    \E c, d \in Conns :
        /\ lastErr[c] = "validation"
        /\ LastReceived(c).recipientId = 0
        /\ pc[d] = "insert"
        /\ applied = 1 /\ seqDoc.num = seqDoc0.num + 1

\* The session of c waits for the store.
Processing(c) == pc[c] \in {"sequence", "insert"}

\* C16: a session that is in Processing while the store does not respond
\* eventually leaves Processing, unless the store responds again.
C16_StoreCallsBounded ==
    \A c \in Conns :
        (Processing(c) /\ ~storeResponds) ~> (~Processing(c) \/ storeResponds)

\* The half of C16 the code provides: a session waiting in InsertOne while
\* the store does not respond eventually leaves it.
InsertCallBounded ==
    \A c \in Conns :
        (pc[c] = "insert" /\ ~storeResponds) ~>
            (pc[c] # "insert" \/ storeResponds)

\* C17: every fully successful cycle (one whose echo was written) has
\* stored exactly one record, which is in the store, has the recipientId
\* and the content of the cycle's payload, the subject id of the
\* connection's token as senderId and the value the cycle allocated as id;
\* on a counter starting at 0 the first record stored has id 1.
C17_CyclePersistsPayload ==
    /\ \A c \in Conns : \A i \in 1..Len(echoed[c]) :
          \E e \in PersistsOf(c) :
              /\ e.n = i
              /\ \A f \in PersistsOf(c) : f.n = i => f = e
              /\ e.msg \in messages
              /\ e.msg.RecipientID = received[c][i].recipientId
              /\ e.msg.Content = received[c][i].content
              /\ e.msg.SenderID = tokenStr[c].id
              /\ \E a \in allocLog :
                    a.conn = c /\ a.n = i /\ a.val = e.msg.ID
    /\ (seqDoc0 = SeqDoc("int32", 0, 0) /\ applied = 1) =>
          \A m \in messages : m.ID = 1

\* The allocations whose value no stored message carries.
UnpersistedAllocs == {a \in allocLog : ~(\E m \in messages : m.ID = a.val)}

\* The increments applied by calls that returned an error.
LostAllocs == applied - Cardinality(allocLog)

\* C18: the counter has advanced by the number of increments applied; these
\* are the stored messages, the allocations whose insert stored nothing
\* (it failed, or has not completed yet) and the increments of calls that
\* returned an error; every stored id is above the initial counter value
\* and at most the current one, and the stored messages are never more
\* than the advance.
C18_CounterAccounting ==
    /\ seqDoc.num - seqDoc0.num = applied
    /\ seqDoc.half = seqDoc0.half /\ seqDoc.kind = seqDoc0.kind
    /\ \A m \in messages :
          /\ Cardinality({a \in allocLog : a.val = m.ID}) = 1
          /\ 2 * m.ID > 2 * seqDoc0.num + seqDoc0.half
          /\ 2 * m.ID <= 2 * seqDoc.num + seqDoc.half
    /\ \A a \in UnpersistedAllocs :
          \/ pc[a.conn] = "insert" /\ Len(received[a.conn]) = a.n
          \/ pc[a.conn] = "closed" /\ lastErr[a.conn] = "insert"
                /\ Len(received[a.conn]) = a.n
    /\ LostAllocs >= 0
    /\ LostAllocs <= Cardinality({c \in Conns : lastErr[c] \in SequenceErrors})
    /\ applied = Cardinality(messages) + Cardinality(UnpersistedAllocs)
                    + LostAllocs
    /\ Cardinality(messages) <= seqDoc.num - seqDoc0.num

\* One message stored and a second allocation applied whose insert failed
\* and stored nothing.
C18_Witness ==
    /\ applied = 2
    /\ Cardinality(messages) = 1
    /\ \E a \in UnpersistedAllocs :
          pc[a.conn] = "closed" /\ lastErr[a.conn] = "insert"

\* C19: the id and the timestamp of the payload never reach the store:
\* every stored message is the message of a cycle, its id is the value
\* getNextSequence returned in that cycle and its timestamp is a reading
\* of the server's clock, whatever id and timestamp the payload carried.
C19_ClientIdAndTimestampIgnored ==
    /\ \A m \in messages : \E e \in persistLog : e.msg = m
    /\ \A e \in persistLog :
          /\ \E a \in allocLog :
                a.conn = e.conn /\ a.n = e.n /\ a.val = e.msg.ID
          /\ e.msg.Timestamp \in ClockValues

\* A stored message whose payload carried an id and a timestamp of its
\* own, both different from what was stored.
C19_Witness ==
    \E e \in persistLog :
        /\ e.msg \in messages
        /\ e.payload.id # 0 /\ e.payload.timestamp # 0
        /\ e.msg.ID # e.payload.id
        /\ e.msg.Timestamp # e.payload.timestamp

====
